---- MODULE Spec2Model ----
(***************************************************************************)
(* Bundler gateway: the durable job queue of                               *)
(* backend/services/bundler/gateway.py over the models of                  *)
(* backend/apps/bundler/models.py.                                         *)
(*                                                                         *)
(* The store is a relational database with row locks and READ COMMITTED    *)
(* visibility (the code asks for SELECT ... FOR UPDATE SKIP LOCKED): a     *)
(* transaction's writes become visible at its commit, a statement is one   *)
(* step, a row lock is held until the transaction ends, and a statement    *)
(* that needs a row locked by another transaction waits (its action is     *)
(* not enabled) unless it was issued with SKIP LOCKED.                     *)
(*                                                                         *)
(* Ids (uuid4 in the code) are positions in the tables: an Operation's id  *)
(* is its index in ops, a Job's id its index in jobs.  Time is counted in  *)
(* minutes.                                                                *)
(***************************************************************************)
EXTENDS Integers, Sequences, FiniteSets, TLC

\* ------------------------------------------------------------- bounds
MaxJobs == 2
MaxEvents == 4
MaxTime == 12

\* ------------------------------------------------- program constants
DefaultPriority == 100
MaxAttempts == 3
InflightTimeoutMinutes == 5
DefaultBatchSize == 10
DefaultLimit == 50

\* ------------------------------------------------------ input domains
Workers == {"w1", "w2"}
Hashes == {"0xabc", "0xdef"}
Endpoints == {"https://bundler.mock/rpc"}
TxHashes == {"0x11", "0x22"}
BatchSizes == {1, DefaultBatchSize}
Limits == {1, DefaultLimit}
TickSteps == {InflightTimeoutMinutes + 1}

\* operation_id of the path: an id an Operation can have.
PathIds == 1..MaxJobs

\* user_op_hash: str = Field(...): any string, the empty one too.
EmptyHash == ""
AllHashes == Hashes \cup {EmptyHash}

\* payload.call_data as the request carries it, one character per element:
\* absent (None or ""), "0x12", "zz", "0x1".
NoCallData == <<>>
CallDataInputs == {NoCallData, <<"0", "x", "1", "2">>, <<"z", "z">>, <<"0", "x", "1">>}

NoTime == -1
NoOp == 0
EmptyMeta == [k \in {} |-> ""]
MetaInputs == {EmptyMeta, [source |-> "test"]}
AttemptsExceeded == "Dispatch attempts exceeded"

\* UserOperation.Status, BundlerJob.Status
OpStatus == {"queued", "dispatched", "included", "failed", "dropped"}
OpTerminal == {"included", "failed", "dropped"}
JobStatus == {"queued", "dispatching", "succeeded", "failed", "retrying"}

VARIABLES
    ops,      \* table UserOperation, committed rows
    jobs,     \* table BundlerJob, committed rows
    events,   \* table UserOperationEvent, committed rows in creation order
    now,      \* timezone.now()
    wk,       \* per worker: the call it is in and that call's local variables
    ret,      \* what the step just taken returned to its caller, if it returned
    cap       \* the bounds of the run being explored; no action changes it

vars == <<ops, jobs, events, now, wk, ret, cap>>

\* The explored runs.  Wide: up to MaxJobs jobs over both hashes, any interleaving
\* of the workers, a log of MaxEvents events, MaxTime minutes.  Single: one job
\* followed through one claim more than the retry limit, any interleaving.
\* Serial: one hash submitted again after its job ran out of attempts, one call
\* at a time by one caller.  The last two last long enough for every attempt to
\* time out.  batch_sizes and limits are the arguments dispatch_batch and
\* reconcile_inflight are called with: wide takes batches of either size, serial
\* reconciles under either limit, and the others call with the defaults.
FullLog == 2 * (MaxAttempts + 1)
FullTime == MaxAttempts * (InflightTimeoutMinutes + 1)
WideCap ==
    [name |-> "wide", jobs |-> MaxJobs, events |-> MaxEvents, time |-> MaxTime,
     hashes |-> Hashes, metadata |-> {[source |-> "test"]}, workers |-> Workers,
     concurrent |-> TRUE,
     call_data |-> {NoCallData, <<"z", "z">>},
     tx_hashes |-> {"0x11"}, path_ids |-> {1},
     batch_sizes |-> BatchSizes, limits |-> {DefaultLimit}]
SingleCap ==
    [name |-> "single", jobs |-> 1, events |-> FullLog, time |-> FullTime,
     hashes |-> {"0xabc"}, metadata |-> {EmptyMeta}, workers |-> Workers,
     concurrent |-> TRUE, call_data |-> {NoCallData, <<"z", "z">>},
     tx_hashes |-> {"0x11"}, path_ids |-> {1},
     batch_sizes |-> {DefaultBatchSize}, limits |-> {DefaultLimit}]
SerialCap ==
    [name |-> "serial", jobs |-> 2, events |-> FullLog, time |-> FullTime,
     hashes |-> {"0xabc"}, metadata |-> {[source |-> "test"]}, workers |-> {"w1"},
     concurrent |-> FALSE, call_data |-> {NoCallData, <<"z", "z">>},
     tx_hashes |-> {"0x11"}, path_ids |-> {1},
     batch_sizes |-> {DefaultBatchSize}, limits |-> Limits]
Caps == {WideCap, SingleCap, SerialCap}

\* Pair: as serial, with a log long enough for one job of the hash to run out
\* of attempts while the other is in its first.
PairLog == FullLog + 2
PairCap ==
    [name |-> "pair", jobs |-> 2, events |-> PairLog, time |-> FullTime,
     hashes |-> {"0xabc"}, metadata |-> {[source |-> "test"]}, workers |-> {"w1"},
     concurrent |-> FALSE, call_data |-> {NoCallData, <<"z", "z">>},
     tx_hashes |-> {"0x11"}, path_ids |-> {1},
     batch_sizes |-> {DefaultBatchSize}, limits |-> {DefaultLimit}]

\* Inputs: a short run over every call_data and over the empty hash.
InputsLog == 3
InputsCap ==
    [name |-> "inputs", jobs |-> 2, events |-> InputsLog, time |-> InflightTimeoutMinutes + 1,
     hashes |-> {EmptyHash, "0xabc"}, metadata |-> {EmptyMeta}, workers |-> Workers,
     concurrent |-> TRUE, call_data |-> CallDataInputs, tx_hashes |-> {"0x11"}, path_ids |-> {1},
     batch_sizes |-> {DefaultBatchSize}, limits |-> {DefaultLimit}]

OpIds == 1..Len(ops)
JobIds == 1..Len(jobs)

\* A worker's call: pc is its place (idle; enq_miss: get() found no row;
\* enq_hold: the Operation is fetched and locked, or inserted, or fetched again
\* after a uniqueness conflict; disp_hold: the batch is selected and locked;
\* rec_write: the stale rows are read).  hash, endpoint, metadata are the
\* arguments of queue_operation and call_data the call_data of its request;
\* op, created the result of get_or_create;
\* claimed, t are `queued_jobs` and `now` of dispatch_batch with batch_size its
\* argument; inflight the rows of reconcile_inflight with limit its argument.
\* eligible records the Jobs that were Queued or Retrying when the batch was
\* selected.
Idle ==
    [pc |-> "idle", hash |-> "", endpoint |-> "", metadata |-> EmptyMeta, op |-> NoOp,
     created |-> FALSE, refetched |-> FALSE,
     claimed |-> <<>>, t |-> NoTime, batch_size |-> 0, eligible |-> {}, inflight |-> <<>>,
     limit |-> 0, call_data |-> NoCallData]

Range(s) == {s[i] : i \in 1..Len(s)}

\* The step did not end a call.
NoReturn == [call |-> "none"]

\* ------------------------------------------------------------ endpoints
\* The status of the HTTP response of each route of api/routers/bundler.py.
HttpOk == 200
HttpBadRequest == 400
HttpNotFound == 404
HttpServerError == 500

\* DispatchResponse(**result): count, job_ids and operation_hashes are required
\* fields; a result without one of them fails validation, which no handler
\* catches.
DispatchResponseFields == {"count", "job_ids", "operation_hashes"}
dispatch_jobs(result) ==
    IF DispatchResponseFields \subseteq DOMAIN result THEN HttpOk ELSE HttpServerError

\* ReconcileResponse(**result)
ReconcileResponseFields == {"processed", "requeued", "failed"}
reconcile_inflight(result) ==
    IF ReconcileResponseFields \subseteq DOMAIN result THEN HttpOk ELSE HttpServerError

\* except (BundlerJob.DoesNotExist, UserOperation.DoesNotExist): 404
AlwaysOk(raised) == HttpOk
mark_operation_included(raised) ==
    IF raised = "DoesNotExist" THEN HttpNotFound ELSE HttpOk
Min(a, b) == IF a < b THEN a ELSE b

\* Events the calls in progress will append when they commit (bounds the log).
PendingEvents(w) ==
    CASE wk[w].pc \in {"enq_miss", "enq_hold"} -> 1
      [] wk[w].pc = "disp_hold" -> Len(wk[w].claimed)
      [] wk[w].pc = "rec_write" -> Len(wk[w].inflight)
      [] OTHER -> 0

RECURSIVE SumPending(_)
SumPending(W) ==
    IF W = {} THEN 0 ELSE LET w == CHOOSE x \in W : TRUE IN PendingEvents(w) + SumPending(W \ {w})

Room(n) == Len(events) + SumPending(Workers) + n <= cap.events

\* A call may start.
MayStart(w) ==
    /\ w \in cap.workers
    /\ wk[w].pc = "idle"
    /\ cap.concurrent \/ \A v \in Workers : wk[v].pc = "idle"

\* ------------------------------------------------------------ row locks
\* Rows a worker's open transaction holds locked.
LockedJobs(w) ==
    IF wk[w].pc = "disp_hold" THEN {c.id : c \in Range(wk[w].claimed)} ELSE {}

LockedOps(w) ==
    CASE wk[w].pc = "disp_hold" -> {jobs[c.id].user_operation : c \in Range(wk[w].claimed)}
      [] wk[w].pc = "enq_hold" /\ ~wk[w].created -> {wk[w].op}
      [] OTHER -> {}

JobLockedByOther(w, j) == \E v \in Workers \ {w} : j \in LockedJobs(v)
OpLockedByOther(w, o) == \E v \in Workers \ {w} : o \in LockedOps(v)

\* ------------------------------------------------------ queue_operation
\* user_op_hash = models.CharField(max_length=66, unique=True)
HashNotUnique == FALSE
HashIsUnique == TRUE

OpsWithHash(h) == {o \in OpIds : ops[o].hash = h}

\* Another transaction holds an uncommitted INSERT of this hash.
PendingInsert(w, h) ==
    \E v \in Workers \ {w} : wk[v].pc = "enq_hold" /\ wk[v].created /\ wk[v].hash = h

\* bytes.fromhex: whitespace is skipped before each byte, every byte is two
\* hexadecimal digits; anything else raises ValueError.
HexDigits ==
    {"0", "1", "2", "3", "4", "5", "6", "7", "8", "9",
     "a", "b", "c", "d", "e", "f", "A", "B", "C", "D", "E", "F"}
Whitespace == {" "}

RECURSIVE FromHexRaises(_)
FromHexRaises(s) ==
    IF s = <<>> THEN FALSE
    ELSE IF Head(s) \in Whitespace THEN FromHexRaises(Tail(s))
    ELSE IF Len(s) < 2 \/ s[1] \notin HexDigits \/ s[2] \notin HexDigits THEN TRUE
    ELSE FromHexRaises(SubSeq(s, 3, Len(s)))

\* payload.call_data[2:] if payload.call_data.startswith("0x") else payload.call_data
Cleaned(cd) ==
    IF Len(cd) >= 2 /\ cd[1] = "0" /\ cd[2] = "x" THEN SubSeq(cd, 3, Len(cd)) ELSE cd

\* _coerce_payload raises HTTPException(400): call_data is given and
\* bytes.fromhex rejects it.
CoerceAccepts(cd) == FALSE
CoercePayloadRaises(cd) == cd # NoCallData /\ FromHexRaises(Cleaned(cd))

\* The route queue_operation when _coerce_payload raises: it answers 400 and
\* the gateway is not called.
queue_operation_reject(w, cd) ==
    /\ MayStart(w)
    /\ cd \in cap.call_data
    /\ CoercePayloadRaises(cd)
    /\ ret' = [call |-> "queue_operation", raised |-> "HTTPException",
               http |-> HttpBadRequest, call_data |-> cd]
    /\ UNCHANGED <<ops, jobs, events, now, wk, cap>>

\* get_or_create, first half: SELECT ... FOR UPDATE WHERE user_op_hash = h.
queue_operation_get(w, h, ep, m, cd) ==
    /\ MayStart(w)
    /\ cd \in cap.call_data
    /\ ~CoercePayloadRaises(cd)
    /\ h \in cap.hashes
    /\ m \in cap.metadata
    /\ Len(jobs) + Cardinality({v \in Workers : wk[v].pc \in {"enq_miss", "enq_hold"}}) < cap.jobs
    /\ Room(1)
    /\ IF OpsWithHash(h) # {}
       THEN \E o \in OpsWithHash(h) :
              /\ ~OpLockedByOther(w, o)
              /\ wk' = [wk EXCEPT ![w] = [Idle EXCEPT !.pc = "enq_hold", !.hash = h,
                                            !.endpoint = ep, !.metadata = m, !.op = o,
                                            !.call_data = cd]]
       ELSE wk' = [wk EXCEPT ![w] = [Idle EXCEPT !.pc = "enq_miss", !.hash = h,
                                       !.endpoint = ep, !.metadata = m, !.call_data = cd]]
    /\ ret' = NoReturn
    /\ UNCHANGED <<ops, jobs, events, now, cap>>

\* get_or_create, second half: INSERT; on a uniqueness conflict, get() again.
queue_operation_create(w) ==
    /\ wk[w].pc = "enq_miss"
    /\ IF HashIsUnique /\ OpsWithHash(wk[w].hash) # {}
       THEN \E o \in OpsWithHash(wk[w].hash) :
              /\ ~OpLockedByOther(w, o)
              /\ wk' = [wk EXCEPT ![w].pc = "enq_hold", ![w].op = o, ![w].refetched = TRUE]
       ELSE /\ HashIsUnique => ~PendingInsert(w, wk[w].hash)
            /\ wk' = [wk EXCEPT ![w].pc = "enq_hold", ![w].created = TRUE]
    /\ ret' = NoReturn
    /\ UNCHANGED <<ops, jobs, events, now, cap>>

NewOperation(h, m) ==
    [hash |-> h, status |-> "queued", failure_reason |-> "", completed_at |-> NoTime,
     metadata |-> m]

\* if user_operation.status != QUEUED: reset
ResetKeepReason(o) ==
    IF o.status # "queued"
    THEN [o EXCEPT !.status = "queued", !.completed_at = NoTime]
    ELSE o
ResetKeepCompleted(o) ==
    IF o.status # "queued"
    THEN [o EXCEPT !.status = "queued", !.failure_reason = ""]
    ELSE o
ResetOperation(o) ==
    IF o.status # "queued"
    THEN [o EXCEPT !.status = "queued", !.failure_reason = "", !.completed_at = NoTime]
    ELSE o

\* BundlerJob.objects.create(user_operation=..., target_endpoint=...)
NewJobNoOperation(o, ep, t) ==
    [user_operation |-> NoOp, target_endpoint |-> ep, status |-> "queued",
     attempt_count |-> 0, priority |-> DefaultPriority, last_error |-> "",
     enqueued_at |-> t, last_attempt_at |-> NoTime]
NewJobDispatching(o, ep, t) ==
    [user_operation |-> o, target_endpoint |-> ep, status |-> "dispatching",
     attempt_count |-> 0, priority |-> DefaultPriority, last_error |-> "",
     enqueued_at |-> t, last_attempt_at |-> NoTime]
\* enqueued_at (default=timezone.now) is the instant of creation; instants of
\* creation are distinct and are counted here instead of read from the clock.
NewJob(o, ep, t) ==
    [user_operation |-> o, target_endpoint |-> ep, status |-> "queued",
     attempt_count |-> 0, priority |-> DefaultPriority, last_error |-> "",
     enqueued_at |-> t, last_attempt_at |-> NoTime]

Event(o, type, payload) == [user_operation |-> o, event_type |-> type, payload |-> payload]

\* The rest of the atomic block and its commit.
queue_operation_commit(w) ==
    /\ wk[w].pc = "enq_hold"
    /\ LET o == IF wk[w].created THEN Len(ops) + 1 ELSE wk[w].op
       IN  /\ ops' = IF wk[w].created
                     THEN Append(ops, NewOperation(wk[w].hash, wk[w].metadata))
                     ELSE [ops EXCEPT ![o] = ResetOperation(ops[o])]
           /\ jobs' = Append(jobs, NewJob(o, wk[w].endpoint, Len(jobs) + 1))
           /\ events' = Append(events, Event(o, "queued", [endpoint |-> wk[w].endpoint]))
           /\ ret' = [call |-> "queue_operation",
                      result |-> [user_operation |-> o, bundler_job |-> Len(jobs) + 1]]
    /\ wk' = [wk EXCEPT ![w] = Idle]
    /\ UNCHANGED <<now, cap>>

\* What the store keeps of the block's writes when the block raises:
\* transaction.atomic() rolls the block back, the insert of get_or_create with
\* it.
KeepInsert(os, w) ==
    IF wk[w].created THEN Append(os, NewOperation(wk[w].hash, wk[w].metadata)) ELSE os
RolledBack(os, w) == os

\* The storage fails inside the atomic block (after get_or_create, before the
\* commit): the block is rolled back, the exception leaves queue_operation and
\* the route answers 400 (`except Exception`).
queue_operation_abort(w) ==
    /\ wk[w].pc = "enq_hold"
    /\ ops' = RolledBack(ops, w)
    /\ wk' = [wk EXCEPT ![w] = Idle]
    /\ ret' = [call |-> "queue_operation", raised |-> "DatabaseError",
               http |-> HttpBadRequest]
    /\ UNCHANGED <<jobs, events, now, cap>>

\* ------------------------------------------------------- dispatch_batch
\* order_by('priority', 'enqueued_at')
JobBefore(a, b) ==
    \/ jobs[a].priority < jobs[b].priority
    \/ jobs[a].priority = jobs[b].priority /\ jobs[a].enqueued_at < jobs[b].enqueued_at

\* order_by('last_attempt_at')
AttemptAfter(a, b) == jobs[a].last_attempt_at > jobs[b].last_attempt_at
AttemptBefore(a, b) == jobs[a].last_attempt_at < jobs[b].last_attempt_at

\* The results of  rows.order_by(...)[:n] : the first n rows of S in an order
\* that respects Before; rows that tie come in any order.
FirstRows(S, n, Before(_, _)) ==
    LET k == Min(n, Cardinality(S))
    IN  {s \in [1..k -> S] :
           /\ \A i, j \in 1..k : i < j => s[i] # s[j] /\ ~Before(s[j], s[i])
           /\ \A x \in S \ Range(s) : \A i \in 1..k : ~Before(x, s[i])}

\* filter(status__in=[QUEUED, RETRYING])
EligibleOrDispatching ==
    {j \in JobIds : jobs[j].status \in {"queued", "retrying", "dispatching"}}
Eligible == {j \in JobIds : jobs[j].status \in {"queued", "retrying"}}

\* select_for_update(skip_locked=True).select_related('user_operation'): a row is
\* left out when its job row or its joined operation row is locked by another
\* transaction.
NoRowLocks(w, j) == FALSE
SkipLocked(w, j) == JobLockedByOther(w, j) \/ OpLockedByOther(w, jobs[j].user_operation)

\* now = timezone.now(); the SELECT that locks the batch.
dispatch_batch_select(w, b) ==
    /\ MayStart(w)
    /\ b \in cap.batch_sizes
    /\ LET avail == {j \in Eligible : ~SkipLocked(w, j)}
       IN  \E s \in FirstRows(avail, b, JobBefore) :
             /\ Room(Len(s))
             /\ wk' = [wk EXCEPT ![w] =
                      [Idle EXCEPT !.pc = "disp_hold", !.batch_size = b, !.t = now,
                                   !.claimed = [i \in 1..Len(s) |->
                                                  [id |-> s[i],
                                                   attempt_count |-> jobs[s[i]].attempt_count,
                                                   last_error |-> jobs[s[i]].last_error]],
                                   !.eligible = Eligible]]
    /\ ret' = NoReturn
    /\ UNCHANGED <<ops, jobs, events, now, cap>>

\* One pass of the loop body of dispatch_batch over the claimed row c.
ClaimJobKeepCount(js, c, t) ==
    [js EXCEPT ![c.id].status = "dispatching", ![c.id].last_attempt_at = t,
               ![c.id].last_error = ""]
ClaimJob(js, c, t) ==
    [js EXCEPT ![c.id].status = "dispatching", ![c.id].attempt_count = c.attempt_count + 1,
               ![c.id].last_attempt_at = t, ![c.id].last_error = ""]

ClaimOpNothing(os, o) == os
ClaimOpEvery(os, o) == [i \in DOMAIN os |-> [os[i] EXCEPT !.status = "dispatched"]]
ClaimOp(os, o) == [os EXCEPT ![o].status = "dispatched"]

ClaimNoEvent(c) == <<>>
ClaimEvent(c) ==
    <<Event(jobs[c.id].user_operation, "dispatching",
            [job_id |-> c.id, endpoint |-> jobs[c.id].target_endpoint])>>

RECURSIVE ClaimAllFreshLog(_, _, _, _, _)
ClaimAllFreshLog(cs, t, js, os, es) ==
    IF cs = <<>> THEN <<js, os, es>>
    ELSE LET c == Head(cs)
         IN  ClaimAllFreshLog(Tail(cs), t, ClaimJob(js, c, t),
                              ClaimOp(os, jobs[c.id].user_operation), ClaimEvent(c))

\* The loop of dispatch_batch over the locked rows.
RECURSIVE ClaimAll(_, _, _, _, _)
ClaimAll(cs, t, js, os, es) ==
    IF cs = <<>> THEN <<js, os, es>>
    ELSE LET c == Head(cs)
         IN  ClaimAll(Tail(cs), t, ClaimJob(js, c, t), ClaimOp(os, jobs[c.id].user_operation),
                      es \o ClaimEvent(c))

\* The value dispatch_batch returns for its list `claimed`; str(job.id) is the
\* canonical text of the id and stands for it.
EmptyBatchWithHashes == [count |-> 0, job_ids |-> <<>>, operation_hashes |-> <<>>]
EmptyBatch == [count |-> 0, job_ids |-> <<>>]
BatchResult(cs) ==
    IF cs = <<>>
    THEN EmptyBatch
    ELSE [count |-> Len(cs),
          job_ids |-> [i \in 1..Len(cs) |-> cs[i].id],
          operation_hashes |-> [i \in 1..Len(cs) |-> ops[jobs[cs[i].id].user_operation].hash]]

\* The writes of the atomic block, its commit and the return.
dispatch_batch_commit(w) ==
    /\ wk[w].pc = "disp_hold"
    /\ LET r == ClaimAll(wk[w].claimed, wk[w].t, jobs, ops, events)
           result == BatchResult(wk[w].claimed)
       IN  /\ jobs' = r[1]
           /\ ops' = r[2]
           /\ events' = r[3]
           /\ ret' = [call |-> "dispatch_batch", result |-> result,
                      http |-> dispatch_jobs(result)]
    /\ wk' = [wk EXCEPT ![w] = Idle]
    /\ UNCHANGED <<now, cap>>

\* --------------------------------------------------- reconcile_inflight
\* filter(status=DISPATCHING, last_attempt_at__lt=cutoff)
Stale(cutoff) ==
    {j \in JobIds : /\ jobs[j].status = "dispatching"
                    /\ jobs[j].last_attempt_at # NoTime
                    /\ jobs[j].last_attempt_at < cutoff}

\* return {'processed': 0, 'requeued': 0, 'failed': 0}
NothingInflight == [processed |-> 0, requeued |-> 0, failed |-> 0]

\* `if not inflight`: the query runs here, outside any transaction and without
\* locks; its rows are kept for the loop.
reconcile_inflight_read(w, limit) ==
    /\ MayStart(w)
    /\ limit \in cap.limits
    /\ LET cutoff == now - InflightTimeoutMinutes
       IN  IF Stale(cutoff) = {}
           THEN /\ ret' = [call |-> "reconcile_inflight", limit |-> limit,
                           result |-> NothingInflight,
                           http |-> reconcile_inflight(NothingInflight)]
                /\ UNCHANGED wk
           ELSE \E s \in FirstRows(Stale(cutoff), limit, AttemptBefore) :
                  /\ Room(Len(s))
                  /\ wk' = [wk EXCEPT ![w] =
                           [Idle EXCEPT !.pc = "rec_write", !.limit = limit,
                                        !.inflight = [i \in 1..Len(s) |->
                                                        [id |-> s[i],
                                                         attempt_count |-> jobs[s[i]].attempt_count,
                                                         last_error |-> jobs[s[i]].last_error]]]]
                  /\ ret' = NoReturn
    /\ UNCHANGED <<ops, jobs, events, now, cap>>

\* UserOperation.mark_status
mark_status(o, status, reason, t) ==
    LET valid_status == IF status \in OpStatus THEN status ELSE "failed"
    IN  [o EXCEPT !.status = valid_status,
                  !.failure_reason = IF reason # "" THEN reason ELSE @,
                  !.completed_at = IF valid_status \in OpTerminal THEN t ELSE @]

\* The loop of reconcile_inflight over the rows it read; each row decides on the
\* attempt_count and last_error it was read with.
RECURSIVE ReconcileAll(_, _, _, _, _)
ReconcileAll(cs, t, js, os, es) ==
    IF cs = <<>> THEN <<js, os, es>>
    ELSE LET c == Head(cs)
             o == jobs[c.id].user_operation
             err == IF c.last_error # "" THEN c.last_error ELSE AttemptsExceeded
         IN  IF c.attempt_count >= MaxAttempts
             THEN ReconcileAll(Tail(cs), t,
                      [js EXCEPT ![c.id].status = "failed", ![c.id].last_error = err],
                      [os EXCEPT ![o] = mark_status(os[o], "failed", err, t)],
                      Append(es, Event(o, "failed", [job_id |-> c.id, reason |-> err])))
             ELSE ReconcileAll(Tail(cs), t,
                      [js EXCEPT ![c.id].status = "retrying"],
                      [os EXCEPT ![o].status = "queued"],
                      Append(es, Event(o, "requeued", [job_id |-> c.id])))

\* The counters of the loop: `failed += 1`, `requeued += 1`, len(inflight).
RECURSIVE CountFailed(_)
CountFailed(cs) ==
    IF cs = <<>> THEN 0
    ELSE (IF Head(cs).attempt_count >= MaxAttempts THEN 1 ELSE 0) + CountFailed(Tail(cs))

CountNone(cs) == 0
RECURSIVE CountRequeued(_)
CountRequeued(cs) ==
    IF cs = <<>> THEN 0
    ELSE (IF Head(cs).attempt_count >= MaxAttempts THEN 0 ELSE 1) + CountRequeued(Tail(cs))

ReconcileResult(cs) ==
    [processed |-> Len(cs), requeued |-> CountRequeued(cs), failed |-> CountFailed(cs)]

\* The atomic block: every UPDATE addresses its row by primary key alone and
\* waits for a row another transaction holds locked.
reconcile_inflight_commit(w) ==
    /\ wk[w].pc = "rec_write"
    /\ \A c \in Range(wk[w].inflight) :
          ~JobLockedByOther(w, c.id) /\ ~OpLockedByOther(w, jobs[c.id].user_operation)
    /\ LET r == ReconcileAll(wk[w].inflight, now, jobs, ops, events)
           result == ReconcileResult(wk[w].inflight)
       IN  /\ jobs' = r[1]
           /\ ops' = r[2]
           /\ events' = r[3]
           /\ ret' = [call |-> "reconcile_inflight", limit |-> wk[w].limit,
                      result |-> result, http |-> reconcile_inflight(result)]
    /\ wk' = [wk EXCEPT ![w] = Idle]
    /\ UNCHANGED <<now, cap>>

\* -------------------------------------------------------- mark_included
\* {**user_operation.metadata, 'tx_hash': tx_hash}
OverwriteWithTxHash(m, tx) == [tx_hash |-> tx]
KeepFirstTxHash(m, tx) ==
    [k \in DOMAIN m \cup {"tx_hash"} |-> IF k \in DOMAIN m THEN m[k] ELSE tx]
MergeTxHash(m, tx) ==
    [k \in DOMAIN m \cup {"tx_hash"} |-> IF k = "tx_hash" THEN tx ELSE m[k]]

\* job.status = SUCCEEDED; job.last_error = ""
IncludeJobKeepStatus(js, j) == [js EXCEPT ![j].last_error = ""]
IncludeJob(js, j) == [js EXCEPT ![j].status = "succeeded", ![j].last_error = ""]

\* The whole atomic block.  The row is read without a lock, and the only value
\* read that is written back is the metadata, which no other call changes except
\* to set tx_hash; the UPDATEs wait for rows another transaction holds locked.
\* operation_id is the path parameter of the route
\* POST /operations/{operation_id}/mark-included, which calls
\* gateway.mark_included(job_id, tx_hash) and passes operation_id nowhere.
mark_included(w, operation_id, j, tx) ==
    /\ MayStart(w)
    /\ operation_id \in cap.path_ids
    /\ j <= cap.jobs + 1
    /\ tx \in cap.tx_hashes
    /\ IF j \notin JobIds
       THEN /\ ret' = [call |-> "mark_included", operation_id |-> operation_id,
                       job_id |-> j, tx_hash |-> tx,
                       raised |-> "DoesNotExist",
                       http |-> mark_operation_included("DoesNotExist")]
            /\ UNCHANGED <<ops, jobs, events>>
       ELSE LET o == jobs[j].user_operation
            IN  /\ ~JobLockedByOther(w, j)
                /\ ~OpLockedByOther(w, o)
                /\ Room(1)
                /\ jobs' = IncludeJob(jobs, j)
                /\ ops' = [ops EXCEPT ![o].status = "included",
                                      ![o].metadata = MergeTxHash(@, tx),
                                      ![o].completed_at = now]
                /\ events' = Append(events, Event(o, "included", [job_id |-> j, tx_hash |-> tx]))
                /\ ret' = [call |-> "mark_included", operation_id |-> operation_id,
                       job_id |-> j, tx_hash |-> tx,
                           raised |-> "",
                           http |-> mark_operation_included("")]
    /\ UNCHANGED <<now, wk, cap>>

\* ----------------------------------------------------------------- time
Tick(d) ==
    /\ now + d <= cap.time
    /\ now' = now + d
    /\ ret' = NoReturn
    /\ UNCHANGED <<ops, jobs, events, wk, cap>>

Init ==
    /\ ops = <<>>
    /\ jobs = <<>>
    /\ events = <<>>
    /\ now = 0
    /\ wk = [w \in Workers |-> Idle]
    /\ ret = NoReturn
    /\ cap \in Caps

Next ==
    \/ \E w \in Workers, cd \in CallDataInputs : queue_operation_reject(w, cd)
    \/ \E w \in Workers, h \in AllHashes, ep \in Endpoints, m \in MetaInputs, cd \in CallDataInputs :
          queue_operation_get(w, h, ep, m, cd)
    \/ \E w \in Workers : queue_operation_create(w)
    \/ \E w \in Workers : queue_operation_commit(w)
    \/ \E w \in Workers : queue_operation_abort(w)
    \/ \E w \in Workers, b \in BatchSizes : dispatch_batch_select(w, b)
    \/ \E w \in Workers : dispatch_batch_commit(w)
    \/ \E w \in Workers, limit \in Limits : reconcile_inflight_read(w, limit)
    \/ \E w \in Workers : reconcile_inflight_commit(w)
    \/ \E w \in Workers, o \in PathIds, j \in 1..MaxJobs + 1, tx \in TxHashes :
             mark_included(w, o, j, tx)
    \/ \E d \in TickSteps : Tick(d)

Spec == Init /\ [][Next]_vars

\* The wide scenario alone.
InitWide ==
    /\ ops = <<>>
    /\ jobs = <<>>
    /\ events = <<>>
    /\ now = 0
    /\ wk = [w \in Workers |-> Idle]
    /\ ret = NoReturn
    /\ cap = WideCap

SpecWide == InitWide /\ [][Next]_vars

\* The single scenario alone.
InitSingle ==
    /\ ops = <<>>
    /\ jobs = <<>>
    /\ events = <<>>
    /\ now = 0
    /\ wk = [w \in Workers |-> Idle]
    /\ ret = NoReturn
    /\ cap = SingleCap

SpecSingle == InitSingle /\ [][Next]_vars

\* The serial scenario alone.
InitSerial ==
    /\ ops = <<>>
    /\ jobs = <<>>
    /\ events = <<>>
    /\ now = 0
    /\ wk = [w \in Workers |-> Idle]
    /\ ret = NoReturn
    /\ cap = SerialCap

SpecSerial == InitSerial /\ [][Next]_vars

InitPair ==
    /\ ops = <<>>
    /\ jobs = <<>>
    /\ events = <<>>
    /\ now = 0
    /\ wk = [w \in Workers |-> Idle]
    /\ ret = NoReturn
    /\ cap = PairCap

SpecPair == InitPair /\ [][Next]_vars

InitInputs ==
    /\ ops = <<>>
    /\ jobs = <<>>
    /\ events = <<>>
    /\ now = 0
    /\ wk = [w \in Workers |-> Idle]
    /\ ret = NoReturn
    /\ cap = InputsCap

SpecInputs == InitInputs /\ [][Next]_vars

\* Resubmit: one hash submitted a second time after a reconcile call and a
\* mark_included call have overlapped on its first Job.
ResubmitLog == FullLog - MaxAttempts
ResubmitCap ==
    [name |-> "resubmit", jobs |-> 2, events |-> ResubmitLog,
     time |-> InflightTimeoutMinutes + 1,
     hashes |-> {"0xabc"}, metadata |-> {EmptyMeta}, workers |-> Workers,
     concurrent |-> TRUE, call_data |-> {NoCallData, <<"z", "z">>},
     tx_hashes |-> {"0x11"}, path_ids |-> {1},
     batch_sizes |-> {DefaultBatchSize}, limits |-> {DefaultLimit}]

InitResubmit ==
    /\ ops = <<>>
    /\ jobs = <<>>
    /\ events = <<>>
    /\ now = 0
    /\ wk = [w \in Workers |-> Idle]
    /\ ret = NoReturn
    /\ cap = ResubmitCap

SpecResubmit == InitResubmit /\ [][Next]_vars

\* Inclusion: one hash with up to two Jobs, reported included more than once
\* and with different transaction hashes.
InclusionLog == FullLog - MaxAttempts
InclusionCap ==
    [name |-> "inclusion", jobs |-> 2, events |-> InclusionLog,
     time |-> InflightTimeoutMinutes + 1,
     hashes |-> {"0xabc"}, metadata |-> {[source |-> "test"]}, workers |-> Workers,
     concurrent |-> TRUE, call_data |-> {NoCallData, <<"z", "z">>},
     tx_hashes |-> TxHashes, path_ids |-> {1},
     batch_sizes |-> {DefaultBatchSize}, limits |-> {DefaultLimit}]

InitInclusion ==
    /\ ops = <<>>
    /\ jobs = <<>>
    /\ events = <<>>
    /\ now = 0
    /\ wk = [w \in Workers |-> Idle]
    /\ ret = NoReturn
    /\ cap = InclusionCap

SpecInclusion == InitInclusion /\ [][Next]_vars

\* Path: two hashes, and mark-included requests that name either Operation in
\* their path.
PathLog == MaxAttempts
PathCap ==
    [name |-> "path", jobs |-> 2, events |-> PathLog,
     time |-> InflightTimeoutMinutes + 1,
     hashes |-> Hashes, metadata |-> {EmptyMeta}, workers |-> Workers,
     concurrent |-> TRUE, call_data |-> {NoCallData, <<"z", "z">>},
     tx_hashes |-> {"0x11"}, path_ids |-> PathIds,
      batch_sizes |-> {DefaultBatchSize}, limits |-> {DefaultLimit}]

InitPath ==
    /\ ops = <<>>
    /\ jobs = <<>>
    /\ events = <<>>
    /\ now = 0
    /\ wk = [w \in Workers |-> Idle]
    /\ ret = NoReturn
    /\ cap = PathCap

SpecPath == InitPath /\ [][Next]_vars

\* Live: one Job and both workers, followed until it is resolved.  The log and
\* the clock are long enough never to stop a call; the callers stop enqueueing
\* after the first Job and report at most IncludedBudget inclusions.
IncludedBudget == 1
LiveLog == 2 * FullLog
LiveTime == 2 * FullTime
LiveCap ==
    [name |-> "live", jobs |-> 1, events |-> LiveLog, time |-> LiveTime,
     hashes |-> {"0xabc"}, metadata |-> {EmptyMeta}, workers |-> Workers,
     concurrent |-> TRUE, call_data |-> {NoCallData}, tx_hashes |-> {"0x11"}, path_ids |-> {1},
     batch_sizes |-> {DefaultBatchSize}, limits |-> {DefaultLimit}]

InitLive ==
    /\ ops = <<>>
    /\ jobs = <<>>
    /\ events = <<>>
    /\ now = 0
    /\ wk = [w \in Workers |-> Idle]
    /\ ret = NoReturn
    /\ cap = LiveCap

IncludedEvents == Cardinality({i \in 1..Len(events) : events[i].event_type = "included"})

\* Some claimed Job has not timed out yet: only then does the passing of time
\* change what a call does.
AwaitsTimeout ==
    \E j \in JobIds :
       jobs[j].status = "dispatching" /\ j \notin Stale(now - InflightTimeoutMinutes)

\* The calls a scheduler keeps making.
DispatchCalled == \E w \in Workers, b \in BatchSizes : dispatch_batch_select(w, b)
ReconcileCalled == \E w \in Workers, limit \in Limits : reconcile_inflight_read(w, limit)
TimePasses == AwaitsTimeout /\ \E d \in TickSteps : Tick(d)
\* A call that has started runs to its end.
CallReturns(w) ==
    \/ queue_operation_create(w)
    \/ queue_operation_commit(w)
    \/ dispatch_batch_commit(w)
    \/ reconcile_inflight_commit(w)

NextLive ==
    \/ \E w \in Workers, h \in AllHashes, ep \in Endpoints, m \in MetaInputs, cd \in CallDataInputs :
          queue_operation_get(w, h, ep, m, cd)
    \/ \E w \in Workers : CallReturns(w)
    \/ DispatchCalled
    \/ ReconcileCalled
    \/ IncludedEvents < IncludedBudget
          /\ \E w \in Workers, o \in PathIds, j \in 1..MaxJobs + 1, tx \in TxHashes :
             mark_included(w, o, j, tx)
    \/ TimePasses

SpecLive ==
    /\ InitLive
    /\ [][NextLive]_vars
    /\ \A w \in Workers : WF_vars(CallReturns(w))
    /\ SF_vars(DispatchCalled)
    /\ SF_vars(ReconcileCalled)
    /\ WF_vars(TimePasses)

\* ----------------------------------------------------------- properties
\* The Jobs worker w's dispatch call holds claimed.
ClaimedIds(w) == {c.id : c \in Range(wk[w].claimed)}

UniqueHash == \A a, b \in OpIds : a # b => ops[a].hash # ops[b].hash

\* An enqueue that lost the insert of a new hash and carries on with the
\* Operation the winner committed.
UniqueHashWitness ==
    \E w \in Workers : wk[w].pc = "enq_hold" /\ wk[w].refetched /\ wk[w].op \in OpIds

\* The steps of the Job state machine.
LegalJobSteps ==
    {<<"queued", "dispatching">>, <<"retrying", "dispatching">>,
     <<"dispatching", "retrying">>, <<"dispatching", "succeeded">>,
     <<"dispatching", "failed">>}

\* C3  Every change of a Job's status is one of the five steps of the Job
\* state machine: a Job becomes Dispatching only from Queued or Retrying and
\* Succeeded only from Dispatching.
JobStepsLegal ==
    [][\A j \in JobIds :
          jobs'[j].status # jobs[j].status =>
             <<jobs[j].status, jobs'[j].status>> \in LegalJobSteps]_vars

\* C4  A Succeeded Job keeps its status and an Included Operation keeps its
\* status in every later step.
SuccessIsFinal ==
    [][ /\ \A j \in JobIds : jobs[j].status = "succeeded" => jobs'[j].status = "succeeded"
        /\ \A o \in OpIds : ops[o].status = "included" => ops'[o].status = "included" ]_vars

\* C5  No Job is claimed more than MaxAttempts times.
AttemptLimit == \A j \in JobIds : jobs[j].attempt_count <= MaxAttempts

\* The step in which worker w's dispatch call commits.
DispatchCommits(w) == wk[w].pc = "disp_hold" /\ wk'[w].pc = "idle"

\* C6  attempt_count never decreases: it changes only for the Jobs a dispatch
\* call claims, by exactly one per claim, when that call commits.
AttemptCountByClaimOnly ==
    [][ /\ \A j \in JobIds :
             jobs'[j].attempt_count # jobs[j].attempt_count =>
                \E w \in Workers : DispatchCommits(w) /\ j \in ClaimedIds(w)
        /\ \A w \in Workers :
             DispatchCommits(w) =>
                \A j \in ClaimedIds(w) : jobs'[j].attempt_count = jobs[j].attempt_count + 1
        /\ \A j \in 1..Len(jobs') : j \notin JobIds => jobs'[j].attempt_count = 0 ]_vars

\* A Job that was claimed, released by reconcile and claimed again.
AttemptCountWitness ==
    /\ \E j \in JobIds : jobs[j].attempt_count = 2 /\ jobs[j].status = "dispatching"
    /\ \E i \in 1..Len(events) : events[i].event_type = "requeued"

\* C7  completed_at is set exactly when the Operation's status is terminal.
CompletedIffTerminal ==
    \A o \in OpIds : (ops[o].completed_at # NoTime) <=> (ops[o].status \in OpTerminal)

\* The steps in which a call's atomic block commits.
EnqueueCommits(w) ==
    wk[w].pc = "enq_hold" /\ wk'[w].pc = "idle" /\ "result" \in DOMAIN ret'
ReconcileCommits(w) == wk[w].pc = "rec_write" /\ wk'[w].pc = "idle"
MarkIncludedCommits == wk' = wk /\ now' = now /\ events' # events

NewEvents == SubSeq(events', Len(events) + 1, Len(events'))

JobStatusOfEvent(type) ==
    CASE type = "queued" -> "queued"
      [] type = "dispatching" -> "dispatching"
      [] type = "requeued" -> "retrying"
      [] type = "failed" -> "failed"
      [] type = "included" -> "succeeded"

\* Event e reports the write of Job j in this step.
EventReports(e, j) ==
    /\ e.user_operation = jobs'[j].user_operation
    /\ jobs'[j].status = JobStatusOfEvent(e.event_type)
    /\ IF e.event_type = "queued"
       THEN j \notin JobIds /\ e.payload.endpoint = jobs'[j].target_endpoint
       ELSE e.payload.job_id = j

\* C8  Every unit that changes the status of a Job or Operation appends, in the
\* same step, exactly one event per Job it writes: enqueue one `queued`,
\* dispatch one `dispatching` per claimed Job, reconcile one `requeued` or
\* `failed` per processed Job, mark_included one `included`; and no event is
\* appended without the write it reports.
OneEventPerWrite ==
    [][ LET new == NewEvents
        IN  /\ Len(events') >= Len(events)
            /\ \A j \in 1..Len(jobs') :
                 (j \notin JobIds \/ jobs'[j].status # jobs[j].status) =>
                    Cardinality({i \in 1..Len(new) : EventReports(new[i], j)}) = 1
            /\ \A o \in 1..Len(ops') :
                 (o \notin OpIds \/ ops'[o].status # ops[o].status) =>
                    \E i \in 1..Len(new) : new[i].user_operation = o
            /\ \A i \in 1..Len(new) :
                 Cardinality({j \in 1..Len(jobs') : EventReports(new[i], j)}) = 1
            /\ \A w \in Workers :
                 /\ EnqueueCommits(w) => Len(new) = 1 /\ new[1].event_type = "queued"
                 /\ DispatchCommits(w) =>
                      /\ Len(new) = Len(wk[w].claimed)
                      /\ \A i \in 1..Len(new) : new[i].event_type = "dispatching"
                 /\ ReconcileCommits(w) =>
                      /\ Len(new) = Len(wk[w].inflight)
                      /\ \A i \in 1..Len(new) : new[i].event_type \in {"requeued", "failed"}
            /\ MarkIncludedCommits => Len(new) = 1 /\ new[1].event_type = "included" ]_vars

\* A log that holds an event of every kind the four calls append.
OneEventPerWriteWitness ==
    \A type \in {"queued", "dispatching", "requeued", "failed", "included"} :
       \E i \in 1..Len(events) : events[i].event_type = type

HashCount(os, h) == Cardinality({o \in 1..Len(os) : os[o].hash = h})
JobsOf(js, o) == Cardinality({j \in 1..Len(js) : js[j].user_operation = o})
QueuedEventsOf(es, o) ==
    Cardinality({i \in 1..Len(es) : es[i].user_operation = o /\ es[i].event_type = "queued"})

\* C9  Every enqueue creates exactly one Job: Queued, attempt_count 0, default
\* priority, referencing the found-or-created Operation of its hash; nothing
\* else creates Jobs, so a hash enqueued k times has one Operation and k Jobs.
OneJobPerEnqueue ==
    [][ /\ \A w \in Workers :
             EnqueueCommits(w) =>
                LET n == Len(jobs) + 1
                    h == wk[w].hash
                IN  /\ Len(jobs') = n
                    /\ \A j \in JobIds : jobs'[j] = jobs[j]
                    /\ jobs'[n].status = "queued"
                    /\ jobs'[n].attempt_count = 0
                    /\ jobs'[n].priority = DefaultPriority
                    /\ jobs'[n].target_endpoint = wk[w].endpoint
                    /\ jobs'[n].user_operation \in 1..Len(ops')
                    /\ ops'[jobs'[n].user_operation].hash = h
                    /\ IF OpsWithHash(h) # {}
                       THEN Len(ops') = Len(ops) /\ jobs'[n].user_operation \in OpsWithHash(h)
                       ELSE Len(ops') = Len(ops) + 1 /\ jobs'[n].user_operation = Len(ops')
        /\ Len(jobs') # Len(jobs) => \E w \in Workers : EnqueueCommits(w)
        /\ \A h \in Hashes : HashCount(ops', h) <= 1
        /\ \A o \in 1..Len(ops') : JobsOf(jobs', o) = QueuedEventsOf(events', o) ]_vars

\* One hash enqueued twice: one Operation, two Jobs.
OneJobPerEnqueueWitness ==
    /\ Len(ops) = 1
    /\ Len(jobs) = 2
    /\ \A j \in JobIds : jobs[j].user_operation = 1

\* C10  Enqueue of a hash whose Operation is not Queued sets it to Queued with
\* failure_reason and completed_at cleared and changes nothing else of it.
EnqueueResets ==
    [][ \A w \in Workers :
          (EnqueueCommits(w) /\ ~wk[w].created /\ ops[wk[w].op].status # "queued") =>
             /\ Len(ops') = Len(ops)
             /\ ops'[wk[w].op] = [ops[wk[w].op] EXCEPT !.status = "queued",
                                                        !.failure_reason = "",
                                                        !.completed_at = NoTime]
             /\ \A o \in OpIds \ {wk[w].op} : ops'[o] = ops[o] ]_vars

\* A Failed Operation whose hash was enqueued again: the last two events of the
\* log are its `failed` and its `queued`.
EnqueueResetsWitness ==
    /\ Len(events) >= 2
    /\ events[Len(events)].event_type = "queued"
    /\ events[Len(events) - 1].event_type = "failed"
    /\ events[Len(events)].user_operation = events[Len(events) - 1].user_operation
    /\ ops[events[Len(events)].user_operation].status = "queued"

\* The step in which worker w's dispatch call selects its batch.
DispatchSelects(w) == wk[w].pc = "idle" /\ wk'[w].pc = "disp_hold"

\* Job a comes before Job b under (priority ascending, enqueued_at ascending).
EarlierJob(a, b) ==
    \/ jobs[a].priority < jobs[b].priority
    \/ jobs[a].priority = jobs[b].priority /\ jobs[a].enqueued_at < jobs[b].enqueued_at

IdsOf(cs) == [i \in 1..Len(cs) |-> cs[i].id]

\* C11  A dispatch call with batch_size b that no other dispatch call runs
\* beside claims exactly min(b, E) Jobs, E the number of Jobs in Queued or
\* Retrying: the min(b, E) first under (priority, enqueued_at), and job_ids
\* lists them in that order.
DispatchTakesFirst ==
    [][ \A w \in Workers :
          /\ (DispatchSelects(w) /\ \A v \in Workers \ {w} : wk[v].pc # "disp_hold") =>
                LET ids == IdsOf(wk'[w].claimed)
                IN  /\ Len(ids) = Min(wk'[w].batch_size, Cardinality(Eligible))
                    /\ Range(ids) \subseteq Eligible
                    /\ \A i, k \in 1..Len(ids) : i < k => EarlierJob(ids[i], ids[k])
                    /\ \A x \in Eligible \ Range(ids) :
                          \A i \in 1..Len(ids) : EarlierJob(ids[i], x)
          /\ DispatchCommits(w) =>
                /\ ret'.call = "dispatch_batch"
                /\ ret'.result.count = Len(wk[w].claimed)
                /\ ret'.result.job_ids = IdsOf(wk[w].claimed) ]_vars

\* C12  When a dispatch call returns, every Job it returned is Dispatching with
\* last_attempt_at the call's timestamp and last_error empty, its parent
\* Operation is Dispatched, the call appended one `dispatching` event with that
\* job id and endpoint to the parent, and operation_hashes[i] is the hash of
\* the parent of job_ids[i].
DispatchPostState ==
    [][ \A w \in Workers :
          (DispatchCommits(w) /\ ret'.result.count > 0) =>
             /\ Len(ret'.result.job_ids) = ret'.result.count
             /\ Len(ret'.result.operation_hashes) = ret'.result.count
             /\ \A i \in 1..ret'.result.count :
                   LET j == ret'.result.job_ids[i]
                       o == jobs'[j].user_operation
                   IN  /\ jobs'[j].status = "dispatching"
                       /\ jobs'[j].last_attempt_at = wk[w].t
                       /\ jobs'[j].last_error = ""
                       /\ ops'[o].status = "dispatched"
                       /\ ret'.result.operation_hashes[i] = ops'[o].hash
                       /\ Cardinality({k \in 1..Len(NewEvents) :
                              NewEvents[k] = Event(o, "dispatching",
                                                   [job_id |-> j,
                                                    endpoint |-> jobs'[j].target_endpoint])}) = 1 ]_vars

\* A dispatch call has just returned two Jobs.
DispatchPostStateWitness ==
    /\ ret.call = "dispatch_batch"
    /\ ret.result.count = 2
    /\ \A j \in Range(ret.result.job_ids) : jobs[j].status = "dispatching"

\* C13  A dispatch call that finds no Job in Queued or Retrying returns count
\* 0 with an empty job_ids list and an empty operation_hashes list, changes
\* nothing in the store, and its endpoint answers with a successful response.
EmptyDispatchSucceeds ==
    [][ \A w \in Workers :
          (DispatchCommits(w) /\ wk[w].eligible = {}) =>
             /\ ret'.call = "dispatch_batch"
             /\ ret'.result = [count |-> 0, job_ids |-> <<>>, operation_hashes |-> <<>>]
             /\ ret'.http = HttpOk
             /\ UNCHANGED <<ops, jobs, events>> ]_vars

\* The rows of worker w's reconcile call that it read with attempt_count at
\* the retry limit, and those it read with attempt_count below it.
Exhausted(w) == {c \in Range(wk[w].inflight) : c.attempt_count >= MaxAttempts}
Retryable(w) == {c \in Range(wk[w].inflight) : c.attempt_count < MaxAttempts}

\* C14  Failure escalation: when a reconcile call returns, every Job it
\* processed with attempt_count >= 3 is Failed with a non-empty last_error, its
\* parent Operation is Failed with that same reason, one `failed` event with
\* the job id and the reason was appended, and the call returned normally,
\* counting the Job in `failed`.
FailureEscalation ==
    [][ \A w \in Workers :
          ReconcileCommits(w) =>
             /\ ret'.call = "reconcile_inflight"
             /\ ret'.result.failed = Cardinality(Exhausted(w))
             /\ \A c \in Exhausted(w) :
                   LET o == jobs'[c.id].user_operation
                   IN  /\ jobs'[c.id].status = "failed"
                       /\ jobs'[c.id].last_error # ""
                       /\ ops'[o].status = "failed"
                       /\ ops'[o].failure_reason = jobs'[c.id].last_error
                       /\ Cardinality({k \in 1..Len(NewEvents) :
                              NewEvents[k] = Event(o, "failed",
                                                   [job_id |-> c.id,
                                                    reason |-> jobs'[c.id].last_error])}) = 1 ]_vars

\* C15  Requeue: when a reconcile call returns, every Job it processed with
\* attempt_count < 3 is Retrying, which the next dispatch selects from, its
\* parent Operation is Queued, and one `requeued` event with the job id was
\* appended.
RequeueReleases ==
    [][ \A w \in Workers :
          ReconcileCommits(w) =>
             /\ ret'.call = "reconcile_inflight"
             /\ ret'.result.requeued = Cardinality(Retryable(w))
             /\ \A c \in Retryable(w) :
                   LET o == jobs'[c.id].user_operation
                   IN  /\ jobs'[c.id].status = "retrying"
                       /\ ops'[o].status = "queued"
                       /\ Cardinality({k \in 1..Len(NewEvents) :
                              NewEvents[k] = Event(o, "requeued", [job_id |-> c.id])}) = 1 ]_vars

\* The step in which worker w's reconcile call, having read stale rows, goes on
\* to its atomic block.
ReconcileReads(w) == wk[w].pc = "idle" /\ wk'[w].pc = "rec_write"

\* C16  Every reconcile(limit) call returns processed = requeued + failed with
\* processed <= limit; a call that finds no Job Dispatching with last_attempt_at
\* older than the cutoff returns at once, with all three counts 0, raising
\* nothing and changing nothing in the store.
ReconcileCounts ==
    [][ /\ ret'.call = "reconcile_inflight" =>
             /\ DOMAIN ret'.result = {"processed", "requeued", "failed"}
             /\ ret'.result.processed = ret'.result.requeued + ret'.result.failed
             /\ ret'.result.processed <= ret'.limit
             /\ ret'.result.requeued >= 0 /\ ret'.result.failed >= 0
             /\ ret'.http = HttpOk
             /\ (\A w \in Workers : ~ReconcileCommits(w)) =>
                   /\ Stale(now - InflightTimeoutMinutes) = {}
                   /\ ret'.result = [processed |-> 0, requeued |-> 0, failed |-> 0]
                   /\ UNCHANGED <<ops, jobs, events>>
        /\ \A w \in Workers :
             /\ ReconcileReads(w) => Stale(now - InflightTimeoutMinutes) # {}
             /\ ReconcileCommits(w) => ret'.call = "reconcile_inflight" ]_vars

\* A reconcile call with limit 1 has just returned, having processed one of
\* two stale Jobs.
ReconcileCountsWitness ==
    /\ ret.call = "reconcile_inflight"
    /\ ret.limit = 1
    /\ ret.result.processed = 1
    /\ \E j \in JobIds : j \in Stale(now - InflightTimeoutMinutes)

\* C17  mark_included(job_id, tx_hash) for an existing Job sets, in one step,
\* the Job to Succeeded with last_error empty and its parent Operation to
\* Included with completed_at set, and appends exactly one `included` event
\* with payload {job_id, tx_hash} to that Operation; it changes no other Job or
\* Operation.
MarkIncludedPostState ==
    [][ (ret'.call = "mark_included" /\ ret'.job_id \in JobIds) =>
          LET j == ret'.job_id
              o == jobs[j].user_operation
          IN  /\ ret'.raised = ""
              /\ jobs'[j] = [jobs[j] EXCEPT !.status = "succeeded", !.last_error = ""]
              /\ \A i \in JobIds \ {j} : jobs'[i] = jobs[i]
              /\ Len(jobs') = Len(jobs)
              /\ ops'[o].status = "included"
              /\ ops'[o].completed_at = now
              /\ ops'[o].completed_at # NoTime
              /\ \A i \in OpIds \ {o} : ops'[i] = ops[i]
              /\ Len(ops') = Len(ops)
              /\ events' = Append(events, Event(o, "included",
                                                [job_id |-> j, tx_hash |-> ret'.tx_hash])) ]_vars

\* mark_included has just returned for a Job that reconcile had failed: the
\* Job is Succeeded and its last_error, set by the failure, is empty again.
MarkIncludedPostStateWitness ==
    /\ ret.call = "mark_included"
    /\ ret.raised = ""
    /\ jobs[ret.job_id].status = "succeeded"
    /\ \E i \in 1..Len(events) :
          events[i].event_type = "failed" /\ events[i].payload.job_id = ret.job_id

\* C18  mark_included changes the Operation's metadata only by setting the key
\* tx_hash to the given value: every other key present before is present
\* afterwards with the same value, and no other key appears.
MetadataMerged ==
    [][ (ret'.call = "mark_included" /\ ret'.raised = "") =>
          LET o == jobs[ret'.job_id].user_operation
              old == ops[o].metadata
              new == ops'[o].metadata
          IN  /\ DOMAIN new = DOMAIN old \cup {"tx_hash"}
              /\ new["tx_hash"] = ret'.tx_hash
              /\ \A k \in DOMAIN old \ {"tx_hash"} : new[k] = old[k] ]_vars

\* mark_included has just returned for an Operation enqueued with metadata
\* {source: test}: its metadata is {source: test, tx_hash: v}.
MetadataMergedWitness ==
    /\ ret.call = "mark_included"
    /\ ret.raised = ""
    /\ ops[jobs[ret.job_id].user_operation].metadata =
          [source |-> "test", tx_hash |-> ret.tx_hash]

\* C19  mark_included with a job id that matches no Job ends in a NotFound
\* outcome that differs from success (404 at the endpoint) and leaves every
\* Operation, every Job and the event log unchanged.
UnknownJobNotFound ==
    [][ (ret'.call = "mark_included" /\ ret'.job_id \notin JobIds) =>
          /\ ret'.raised = "DoesNotExist"
          /\ ret'.http = HttpNotFound
          /\ ret'.http # mark_operation_included("")
          /\ UNCHANGED <<ops, jobs, events>> ]_vars

\* mark_included has just raised for an unknown job id on a store that holds
\* a Job.
UnknownJobNotFoundWitness ==
    /\ ret.call = "mark_included"
    /\ ret.raised = "DoesNotExist"
    /\ ret.job_id \notin JobIds
    /\ Len(jobs) >= 1

\* The events of Operation o in creation order (operation.events ordered by
\* created_at).
OpLog(es, o) ==
    LET OfOp(e) == e.user_operation = o
    IN  SelectSeq(es, OfOp)

\* C20  Event completeness: for an Operation that goes Queued -> Dispatched ->
\* Included, the event log in creation order starts with a `queued` event,
\* holds a `dispatching` event after it once the Operation is Dispatched, and
\* an `included` event after that `dispatching` event once it is Included.
EventCompleteness ==
    [][ \A o \in OpIds :
          /\ (ops[o].status = "queued" /\ ops'[o].status = "dispatched") =>
                LET log == OpLog(events', o)
                IN  /\ Len(log) >= 2
                    /\ log[1].event_type = "queued"
                    /\ log[Len(log)].event_type = "dispatching"
          /\ (ops[o].status = "dispatched" /\ ops'[o].status = "included") =>
                LET log == OpLog(events', o)
                IN  /\ Len(log) >= 3
                    /\ log[1].event_type = "queued"
                    /\ \E i, k \in 2..Len(log) :
                          /\ i < k
                          /\ log[i].event_type = "dispatching"
                          /\ log[k].event_type = "included" ]_vars

\* An Included Operation whose log is queued, dispatching, included.
EventCompletenessWitness ==
    \E o \in OpIds :
       /\ ops[o].status = "included"
       /\ Len(OpLog(events, o)) = 3
       /\ OpLog(events, o)[1].event_type = "queued"
       /\ OpLog(events, o)[2].event_type = "dispatching"
       /\ OpLog(events, o)[3].event_type = "included"

\* C21  The event log is append-only: no step modifies or deletes an existing
\* event, so the log of every Operation in a later state has its log in any
\* earlier state as a prefix.
AppendOnly ==
    [][ /\ Len(events') >= Len(events)
        /\ SubSeq(events', 1, Len(events)) = events
        /\ \A o \in OpIds :
             /\ Len(OpLog(events', o)) >= Len(OpLog(events, o))
             /\ SubSeq(OpLog(events', o), 1, Len(OpLog(events, o))) = OpLog(events, o) ]_vars

\* A log to which enqueue, dispatch, reconcile and mark_included have each
\* appended after the first event was written.
AppendOnlyWitness ==
    /\ Len(events) >= 4
    /\ events[1].event_type = "queued"
    /\ \E i, k, m \in 2..Len(events) :
          /\ events[i].event_type = "dispatching"
          /\ events[k].event_type = "requeued"
          /\ events[m].event_type = "included"

\* C22  Ingestion is all-or-nothing: in every committed state every Operation
\* has at least one Job and as many `queued` events as Jobs, also after an
\* enqueue call failed part-way through.
IngestionAtomic ==
    \A o \in OpIds :
       /\ JobsOf(jobs, o) >= 1
       /\ QueuedEventsOf(events, o) = JobsOf(jobs, o)

\* An enqueue call has just failed inside its atomic block, on a store that
\* holds an Operation committed by an earlier call.
IngestionAtomicWitness ==
    /\ ret.call = "queue_operation"
    /\ "raised" \in DOMAIN ret
    /\ ret.raised = "DatabaseError"
    /\ Len(ops) >= 1

\* call_data that is not hexadecimal: after the prefix 0x it holds a character
\* that is neither a hexadecimal digit nor white space.
NotHex(cd) ==
    LET body == IF Len(cd) >= 2 /\ cd[1] = "0" /\ cd[2] = "x" THEN SubSeq(cd, 3, Len(cd)) ELSE cd
    IN  \E i \in 1..Len(body) : body[i] \notin HexDigits \cup Whitespace

\* The step in which worker w's enqueue request reaches the gateway.
EnqueueStarts(w) == wk[w].pc = "idle" /\ wk'[w].pc \in {"enq_miss", "enq_hold"}

\* C26  An enqueue request whose call_data is not valid hexadecimal is
\* rejected with a validation error (400) before any write: it never reaches
\* the gateway, and no Operation, Job or event is created or changed by it.
MalformedRejected ==
    [][ /\ \A w \in Workers : EnqueueStarts(w) => ~NotHex(wk'[w].call_data)
        /\ (ret'.call = "queue_operation" /\ "call_data" \in DOMAIN ret') =>
              /\ ret'.raised = "HTTPException"
              /\ ret'.http = HttpBadRequest
              /\ UNCHANGED <<ops, jobs, events, wk>> ]_vars

\* A request with call_data "zz" has just been rejected on a store that holds
\* an Operation.
MalformedRejectedWitness ==
    /\ ret.call = "queue_operation"
    /\ "call_data" \in DOMAIN ret
    /\ NotHex(ret.call_data)
    /\ Len(ops) >= 1

\* C27  Enqueue with an empty hash is rejected and writes nothing: no
\* Operation whose hash is the empty string is ever stored.
NoEmptyHash == \A o \in OpIds : ops[o].hash # EmptyHash

\* Events i < k of log es are `dispatching` events of one Job.
SameJobDispatched(es, i, k) ==
    /\ i < k
    /\ es[i].event_type = "dispatching"
    /\ es[k].event_type = "dispatching"
    /\ es[i].payload.job_id = es[k].payload.job_id

\* C23  A Job claimed once is not claimed again until it is released: between
\* two `dispatching` events with the same job_id the log holds a `requeued`
\* event with that job_id, and no Job that is Dispatching, Succeeded or Failed
\* is returned by a dispatch call.
NoReclaimUntilReleased ==
    [][ /\ \A i, k \in 1..Len(events') :
             SameJobDispatched(events', i, k) =>
                \E m \in (i + 1)..(k - 1) :
                   /\ events'[m].event_type = "requeued"
                   /\ events'[m].payload.job_id = events'[i].payload.job_id
        /\ \A w \in Workers :
             DispatchCommits(w) =>
                \A j \in Range(ret'.result.job_ids) : jobs[j].status \in {"queued", "retrying"} ]_vars

\* A Job that was claimed, released by reconcile and claimed again.
NoReclaimUntilReleasedWitness ==
    \E i, k \in 1..Len(events) :
       /\ SameJobDispatched(events, i, k)
       /\ \E m \in (i + 1)..(k - 1) :
             /\ events[m].event_type = "requeued"
             /\ events[m].payload.job_id = events[i].payload.job_id

\* The steps of the Operation state machine.
LegalOpSteps ==
    {<<"queued", "dispatched">>, <<"dispatched", "queued">>,
     <<"dispatched", "included">>, <<"dispatched", "failed">>}

\* C24  Apart from the reset performed by enqueue, every change of an
\* Operation's status is Queued -> Dispatched, Dispatched -> Queued,
\* Dispatched -> Included or Dispatched -> Failed.
OpStepsLegal ==
    [][ \A o \in OpIds :
          ( /\ ops'[o].status # ops[o].status
            /\ ~\E w \in Workers : EnqueueCommits(w) /\ wk[w].op = o ) =>
             <<ops[o].status, ops'[o].status>> \in LegalOpSteps ]_vars

\* The part of C24 about dispatch and reconcile: neither moves a Failed or
\* Included Operation to Dispatched or Queued.
TerminalKeptByDispatchAndReconcile ==
    [][ \A w \in Workers :
          (DispatchCommits(w) \/ ReconcileCommits(w)) =>
             \A o \in OpIds :
                ops[o].status \in {"failed", "included"} =>
                   ops'[o].status \notin {"dispatched", "queued"} ]_vars

\* C25  An Operation whose status is not Failed has an empty failure_reason,
\* and an Operation whose status is Failed has a non-empty one.
FailureReasonIffFailed ==
    \A o \in OpIds : (ops[o].status = "failed") <=> (ops[o].failure_reason # "")

\* Event e resolves an attempt of Job j; event e reports a claim of Job j.
Resolves(e, j) ==
    e.event_type \in {"requeued", "failed", "included"} /\ e.payload.job_id = j
Claims(e, j) == e.event_type = "dispatching" /\ e.payload.job_id = j

\* C28  Each dispatch attempt of a Job is resolved at most once: after a claim
\* of the Job, at most one of reconcile-requeue, reconcile-fail and
\* mark_included takes effect on it before its next claim, so the log never
\* holds two resolving events of one attempt.
ResolvedAtMostOnce ==
    \A j \in JobIds :
       \A i, k \in 1..Len(events) :
          ( /\ i < k
            /\ Resolves(events[i], j)
            /\ Resolves(events[k], j)
            /\ \E d \in 1..(i - 1) : Claims(events[d], j) ) =>
             \E m \in (i + 1)..(k - 1) : Claims(events[m], j)

\* The part of C28 about reconcile calls alone: the log never holds two
\* `requeued` or `failed` events of one Job without a claim of it in between.
ResolvedOnceByReconcile ==
    \A j \in JobIds :
       \A i, k \in 1..Len(events) :
          ( /\ i < k
            /\ Resolves(events[i], j) /\ events[i].event_type # "included"
            /\ Resolves(events[k], j) /\ events[k].event_type # "included" ) =>
             \E m \in (i + 1)..(k - 1) : Claims(events[m], j)

\* C29  A reconcile call changes a Job only if, when the change is committed,
\* the Job is Dispatching with last_attempt_at older than the 5-minute cutoff;
\* every other Job is left as it is, also when another call ran between the
\* reconciler's read and its write.
ReconcileOnlyStale ==
    [][ \A w \in Workers :
          ReconcileCommits(w) =>
             \A j \in JobIds :
                jobs'[j] # jobs[j] => j \in Stale(now - InflightTimeoutMinutes) ]_vars

\* The Operation status that corresponds to a Job status.
StatusImage(status) ==
    CASE status \in {"queued", "retrying"} -> "queued"
      [] status = "dispatching" -> "dispatched"
      [] status = "succeeded" -> "included"
      [] status = "failed" -> "failed"

\* The Jobs the step being taken creates or saves, in the order of its writes.
WrittenJobs ==
    IF Len(jobs') > Len(jobs) THEN <<Len(jobs')>>
    ELSE IF \E w \in Workers : DispatchCommits(w)
    THEN LET w == CHOOSE x \in Workers : DispatchCommits(x)
         IN  [i \in 1..Len(wk[w].claimed) |-> wk[w].claimed[i].id]
    ELSE IF \E w \in Workers : ReconcileCommits(w)
    THEN LET w == CHOOSE x \in Workers : ReconcileCommits(x)
         IN  [i \in 1..Len(wk[w].inflight) |-> wk[w].inflight[i].id]
    ELSE IF ret'.call = "mark_included" /\ ret'.raised = "" /\ events' # events
    THEN <<ret'.job_id>>
    ELSE <<>>

\* The positions in WrittenJobs of the Jobs of Operation o.
WritesOf(o) ==
    {i \in 1..Len(WrittenJobs) : jobs'[WrittenJobs[i]].user_operation = o}

Max(S) == CHOOSE x \in S : \A y \in S : y <= x

\* An Operation with exactly one Job has the status that Job's status maps to.
SingleJobCorresponds ==
    \A o \in OpIds :
       \A j \in JobIds :
          (jobs[j].user_operation = o /\ JobsOf(jobs, o) = 1) =>
             ops[o].status = StatusImage(jobs[j].status)

\* C30  In every committed state an Operation's status is the image of the
\* status of whichever of its Jobs was created or changed last: a step that
\* writes Jobs of an Operation leaves the Operation with the image of the status
\* of the last of them it wrote, a step that writes none of its Jobs changes
\* neither their statuses nor the Operation's, and an Operation with a single
\* Job always has the image of that Job's status.
StatusFollowsLastJob ==
    [][ /\ \A j \in JobIds :
             jobs'[j].status # jobs[j].status => j \in Range(WrittenJobs)
        /\ \A o \in 1..Len(ops') :
             IF WritesOf(o) # {}
             THEN ops'[o].status = StatusImage(jobs'[WrittenJobs[Max(WritesOf(o))]].status)
             ELSE o \in OpIds /\ ops'[o].status = ops[o].status
        /\ SingleJobCorresponds' ]_vars

\* A dispatch has just claimed the second Job of an Operation whose first Job
\* is Succeeded: the Operation is Dispatched, after the Job changed last.
StatusFollowsLastJobWitness ==
    /\ ret.call = "dispatch_batch"
    /\ \E i \in 1..Len(ret.result.job_ids) :
          LET j == ret.result.job_ids[i]
              o == jobs[j].user_operation
          IN  /\ jobs[j].status = "dispatching"
              /\ ops[o].status = "dispatched"
              /\ \E k \in JobIds : /\ k # j
                                    /\ jobs[k].user_operation = o
                                    /\ jobs[k].status = "succeeded"

\* mark_included has been called for Job j.
Included(j) ==
    \E i \in 1..Len(events) :
       events[i].event_type = "included" /\ events[i].payload.job_id = j

\* Job j is Failed after exactly MaxAttempts claims, and so is its Operation.
FailedAtLimit(j) ==
    /\ jobs[j].status = "failed"
    /\ jobs[j].attempt_count = MaxAttempts
    /\ ops[jobs[j].user_operation].status = "failed"

\* The first half of C31 alone: every Job is eventually Succeeded or Failed.
JobsResolve ==
    \A j \in 1..MaxJobs :
       (j \in JobIds) ~> (j \in JobIds /\ jobs[j].status \in {"succeeded", "failed"})

\* C31  While dispatch and reconcile keep being called, time keeps advancing
\* and enqueue calls have stopped, every Job is eventually Succeeded or Failed,
\* and a Job for which mark_included is never called becomes Failed after
\* exactly MaxAttempts claims, with its Operation Failed.
EventualResolution ==
    /\ JobsResolve
    /\ \A j \in 1..MaxJobs :
          (j \in JobIds) ~> (j \in JobIds /\ (Included(j) \/ FailedAtLimit(j)))

\* The Jobs of Operation o that are Dispatching.
DispatchingJobsOf(o) ==
    {j \in JobIds : jobs[j].user_operation = o /\ jobs[j].status = "dispatching"}

\* C32  Enqueue is accepted while the Operation already has a Job in
\* Dispatching: the call that found such an Operation can commit, and when it
\* does it returns a new Queued Job of that Operation and leaves the
\* Dispatching Jobs as they are.  Two Jobs of one Operation in Dispatching at
\* the same time is the state EnqueueWhileDispatchingWitness describes.
EnqueueWhileDispatching ==
    [][ \A w \in Workers :
          ( /\ wk[w].pc = "enq_hold"
            /\ ~wk[w].created
            /\ DispatchingJobsOf(wk[w].op) # {} ) =>
             /\ ENABLED queue_operation_commit(w)
             /\ EnqueueCommits(w) =>
                   LET n == ret'.result.bundler_job
                   IN  /\ ret'.result.user_operation = wk[w].op
                       /\ n = Len(jobs) + 1
                       /\ Len(jobs') = n
                       /\ jobs'[n].user_operation = wk[w].op
                       /\ jobs'[n].status = "queued"
                       /\ \A j \in DispatchingJobsOf(wk[w].op) : jobs'[j] = jobs[j] ]_vars

\* Two Jobs of one Operation are Dispatching at the same time.
EnqueueWhileDispatchingWitness ==
    \E j, k \in JobIds :
       /\ j # k
       /\ jobs[j].user_operation = jobs[k].user_operation
       /\ jobs[j].status = "dispatching"
       /\ jobs[k].status = "dispatching"

\* The Jobs among the rows a reconcile call read.
InflightIds(rows) == {rows[i].id : i \in 1..Len(rows)}

\* C33  When more than `limit` Jobs are stale, reconcile(limit) reads exactly
\* `limit` of them, none with a later last_attempt_at than a stale Job it
\* leaves out; its commit processes exactly the Jobs it read, setting each to
\* Retrying or Failed, and leaves every other Job as it is, the remaining
\* stale ones still Dispatching.
ReconcileOldestFirst ==
    [][ \A w \in Workers :
          /\ ( /\ ReconcileReads(w)
               /\ Cardinality(Stale(now - InflightTimeoutMinutes)) > wk'[w].limit ) =>
                LET read == InflightIds(wk'[w].inflight)
                    rest == Stale(now - InflightTimeoutMinutes) \ read
                IN  /\ Len(wk'[w].inflight) = wk'[w].limit
                    /\ Cardinality(read) = wk'[w].limit
                    /\ read \subseteq Stale(now - InflightTimeoutMinutes)
                    /\ \A j \in read, k \in rest :
                          jobs[j].last_attempt_at <= jobs[k].last_attempt_at
          /\ ReconcileCommits(w) =>
                LET read == InflightIds(wk[w].inflight)
                IN  /\ ret'.result.processed = Cardinality(read)
                    /\ \A j \in read : jobs'[j].status \in {"retrying", "failed"}
                    /\ \A j \in JobIds \ read : jobs'[j] = jobs[j]
                    /\ Len(jobs') = Len(jobs) ]_vars

\* reconcile(limit = 1) has just requeued the older of two stale Jobs: the
\* other one, claimed later, is still Dispatching and stale.
ReconcileOldestFirstWitness ==
    /\ ret.call = "reconcile_inflight"
    /\ ret.limit = 1
    /\ ret.result.processed = 1
    /\ Len(events) > 0
    /\ events[Len(events)].event_type = "requeued"
    /\ \E k \in Stale(now - InflightTimeoutMinutes) :
          jobs[events[Len(events)].payload.job_id].last_attempt_at < jobs[k].last_attempt_at

\* C34  Immediately after any enqueue call commits, the Operation it returns
\* is Queued with an empty failure_reason and no completed_at, whatever calls
\* preceded it, also when the Operation was Queued before the call.
EnqueueReturnsClean ==
    [][ \A w \in Workers :
          EnqueueCommits(w) =>
             LET o == ret'.result.user_operation
             IN  /\ ops'[o].status = "queued"
                 /\ ops'[o].failure_reason = ""
                 /\ ops'[o].completed_at = NoTime ]_vars

\* C35  In every reachable state a Queued Job has attempt_count 0, a
\* Dispatching Job has 1 <= attempt_count <= MaxAttempts, a Retrying Job has
\* 1 <= attempt_count <= MaxAttempts - 1 and a Failed Job has attempt_count
\* MaxAttempts.
AttemptCountByStatus ==
    \A j \in JobIds :
       /\ jobs[j].status = "queued" => jobs[j].attempt_count = 0
       /\ jobs[j].status = "dispatching" => jobs[j].attempt_count \in 1..MaxAttempts
       /\ jobs[j].status = "retrying" => jobs[j].attempt_count \in 1..(MaxAttempts - 1)
       /\ jobs[j].status = "failed" => jobs[j].attempt_count = MaxAttempts

\* C36  A dispatch call changes no Job other than those it returns and no
\* Operation other than their parents: every other Job and Operation has all
\* its fields after the call as before it, and no row is added or removed.
DispatchFrame ==
    [][ \A w \in Workers :
          DispatchCommits(w) =>
             LET returned == Range(ret'.result.job_ids)
                 parents == {jobs[j].user_operation : j \in returned}
             IN  /\ returned \subseteq JobIds
                 /\ Len(jobs') = Len(jobs)
                 /\ Len(ops') = Len(ops)
                 /\ \A j \in JobIds \ returned : jobs'[j] = jobs[j]
                 /\ \A o \in OpIds \ parents : ops'[o] = ops[o] ]_vars

\* A dispatch call has just returned one Job while a Job of another Operation
\* that it did not return is Dispatching.
DispatchFrameWitness ==
    /\ ret.call = "dispatch_batch"
    /\ ret.result.count = 1
    /\ \E k \in JobIds \ Range(ret.result.job_ids) :
          /\ jobs[k].status = "dispatching"
          /\ jobs[k].user_operation # jobs[ret.result.job_ids[1]].user_operation

\* The positions in the log of the `included` events of Operation o.
IncludedAt(o) ==
    {i \in 1..Len(events) :
        events[i].user_operation = o /\ events[i].event_type = "included"}

\* C37  In every reachable state every Included Operation has a tx_hash key in
\* its metadata, whose value is the tx_hash of the most recent mark_included
\* call applied to one of its Jobs.
IncludedHasTxHash ==
    \A o \in OpIds :
       ops[o].status = "included" =>
          /\ IncludedAt(o) # {}
          /\ "tx_hash" \in DOMAIN ops[o].metadata
          /\ ops[o].metadata.tx_hash = events[Max(IncludedAt(o))].payload.tx_hash

\* An Included Operation that was reported included twice, with different
\* transaction hashes.
IncludedHasTxHashWitness ==
    \E o \in OpIds :
       /\ ops[o].status = "included"
       /\ \E i, k \in IncludedAt(o) : events[i].payload.tx_hash # events[k].payload.tx_hash

\* C38  A mark-included request changes only the Operation named in its path:
\* every other Operation, and every Job of another Operation, is the same after
\* the request as before it.
MarkIncludedOnlyPathOperation ==
    [][ ret'.call = "mark_included" =>
          /\ \A o \in OpIds \ {ret'.operation_id} : ops'[o] = ops[o]
          /\ \A j \in JobIds :
                jobs[j].user_operation # ret'.operation_id => jobs'[j] = jobs[j] ]_vars
====
